---- MODULE Spec2Model ----
(***************************************************************************)
(* Model of extract_definitions.py and extract_code_entities.py: the two   *)
(* scripts that read Python files and print, per file, the module          *)
(* docstring, the top-level functions and the classes with their methods.  *)
(*                                                                         *)
(* A source file is a sequence of items (statements and comment lines).    *)
(* SourceText renders it to the characters of the file; ast_parse gives    *)
(* the tree the Python parser builds for that text, each definition node   *)
(* carrying lineno / col_offset / end_lineno / end_col_offset as CPython   *)
(* assigns them.  Strings are sequences of one-character strings.          *)
(***************************************************************************)
EXTENDS Integers, Sequences, FiniteSets, TLC

\* ------------------------------------------------------------------------
\* Bounds
\* ------------------------------------------------------------------------
MaxStmts == 2
MaxDocLen == 2
MaxFiles == 2

\* ------------------------------------------------------------------------
\* Python values
\* ------------------------------------------------------------------------
None == [tag |-> "None", s |-> <<>>]
PyStr(s) == [tag |-> "str", s |-> s]
PyInt(s) == [tag |-> "int", s |-> s]
PyNode(s) == [tag |-> "node", s |-> s]

Raise(e) == [tag |-> "raise", exc |-> e]
Return(v) == [tag |-> "return", value |-> v]
NotCalled == [tag |-> "notcalled"]

\* ------------------------------------------------------------------------
\* Sequence helpers
\* ------------------------------------------------------------------------
RECURSIVE Flatten(_)
Flatten(ss) == IF ss = <<>> THEN <<>> ELSE Head(ss) \o Flatten(Tail(ss))

RECURSIVE Join(_, _)
Join(ss, sep) ==
  IF ss = <<>> THEN <<>>
  ELSE IF Len(ss) = 1 THEN ss[1]
  ELSE ss[1] \o sep \o Join(Tail(ss), sep)

Drop(s, n) == SubSeq(s, n + 1, Len(s))
Take(s, n) == SubSeq(s, 1, n)

Min(S) == CHOOSE x \in S : \A y \in S : x <= y

\* ------------------------------------------------------------------------
\* Expressions and statements of the source language
\* ------------------------------------------------------------------------
NoExpr == [kind |-> "none", ctype |-> "", chars |-> <<>>]
StrConst(v) == [kind |-> "Constant", ctype |-> "str", chars |-> v]
IntConst == [kind |-> "Constant", ctype |-> "int", chars |-> <<"1">>]
NameExpr(n) == [kind |-> "Name", ctype |-> "", chars |-> <<n>>]
AttrExpr(n) == [kind |-> "Attribute", ctype |-> "", chars |-> <<n>>]
CallExpr(n) == [kind |-> "Call", ctype |-> "", chars |-> <<n>>]

Stmt(k, n, d, bs, b, v) ==
  [kind |-> k, name |-> n, decorators |-> d, bases |-> bs, body |-> b, value |-> v]

Comment == Stmt("Comment", "", 0, <<>>, <<>>, NoExpr)
Pass == Stmt("Pass", "", 0, <<>>, <<>>, NoExpr)
Assign == Stmt("Assign", "", 0, <<>>, <<>>, NoExpr)
ExprStmt(e) == Stmt("Expr", "", 0, <<>>, <<>>, e)
FunctionDef(n, d, b) == Stmt("FunctionDef", n, d, <<>>, b, NoExpr)
AsyncFunctionDef(n, b) == Stmt("AsyncFunctionDef", n, 0, <<>>, b, NoExpr)
ClassDef(n, bs, b) == Stmt("ClassDef", n, 0, bs, b, NoExpr)

IsDef(st) == st.kind \in {"FunctionDef", "AsyncFunctionDef", "ClassDef"}

\* ------------------------------------------------------------------------
\* The text of a source file
\* ------------------------------------------------------------------------
Indent == <<" ", " ", " ", " ">>

RECURSIVE Escape(_)
Escape(v) ==
  IF v = <<>> THEN <<>>
  ELSE (CASE Head(v) = "\n" -> <<"\\", "n">>
          [] Head(v) = "\t" -> <<"\\", "t">>
          [] OTHER -> <<Head(v)>>) \o Escape(Tail(v))

RenderExpr(e) ==
  CASE e.kind = "Constant" /\ e.ctype = "str" -> <<"\"">> \o Escape(e.chars) \o <<"\"">>
    [] e.kind = "Constant" /\ e.ctype = "int" -> e.chars
    [] e.kind = "Name" -> e.chars
    [] e.kind = "Attribute" -> e.chars \o <<".", "b">>
    [] e.kind = "Call" -> e.chars \o <<"(", ")">>
    [] OTHER -> <<>>

RenderBases(bs) ==
  IF bs = <<>> THEN <<>>
  ELSE <<"(">> \o Join([i \in 1..Len(bs) |-> RenderExpr(bs[i])], <<",", " ">>) \o <<")">>

RECURSIVE Render(_, _)
RECURSIVE RenderBody(_, _)
\* the lines (without their line ends) of one statement written at indentation ind
Render(st, ind) ==
  CASE st.kind = "Comment" -> << ind \o <<"#", " ", "c">> >>
    [] st.kind = "Pass" -> << ind \o <<"p", "a", "s", "s">> >>
    [] st.kind = "Assign" -> << ind \o <<"x", " ", "=", " ", "1">> >>
    [] st.kind = "Expr" -> << ind \o RenderExpr(st.value) >>
    [] st.kind = "FunctionDef" ->
         [i \in 1..st.decorators |-> ind \o <<"@", "w">>]
         \o << ind \o <<"d", "e", "f", " ", st.name, "(", ")", ":">> >>
         \o RenderBody(st.body, ind \o Indent)
    [] st.kind = "AsyncFunctionDef" ->
         << ind \o <<"a", "s", "y", "n", "c", " ", "d", "e", "f", " ", st.name, "(", ")", ":">> >>
         \o RenderBody(st.body, ind \o Indent)
    [] st.kind = "ClassDef" ->
         << ind \o <<"c", "l", "a", "s", "s", " ", st.name>> \o RenderBases(st.bases) \o <<":">> >>
         \o RenderBody(st.body, ind \o Indent)

RenderBody(stmts, ind) ==
  IF stmts = <<>> THEN <<>>
  ELSE Render(Head(stmts), ind) \o RenderBody(Tail(stmts), ind)

\* a source file: its items and whether a line holding an unmatched bracket follows them
Source(items, junk) == [items |-> items, junk |-> junk]

SourceLines(src) ==
  RenderBody(src.items, <<>>) \o (IF src.junk THEN << <<"(">> >> ELSE <<>>)

SourceText(src) ==
  Flatten([i \in 1..Len(SourceLines(src)) |-> SourceLines(src)[i] \o <<"\n">>])

\* ------------------------------------------------------------------------
\* ast.parse: the tree of a source text, or SyntaxError
\* ------------------------------------------------------------------------
Count(s, c) == Cardinality({i \in 1..Len(s) : s[i] = c})

Balanced(text) == Count(text, "(") = Count(text, ")")

RECURSIVE Annotate(_, _, _)
RECURSIVE AnnotateBody(_, _, _)
\* the node of statement st whose first line (decorators included) is `line`
Annotate(st, line, ind) ==
  LET r == Render(st, ind) IN
  [kind |-> st.kind, name |-> st.name, decorators |-> st.decorators,
   bases |-> st.bases, value |-> st.value,
   body |-> AnnotateBody(st.body, line + st.decorators + 1, ind \o Indent),
   lineno |-> line + st.decorators,
   col_offset |-> Len(ind),
   end_lineno |-> line + Len(r) - 1,
   end_col_offset |-> Len(r[Len(r)])]

\* comments produce no node, but take up a line
AnnotateBody(stmts, line, ind) ==
  IF stmts = <<>> THEN <<>>
  ELSE (IF Head(stmts).kind = "Comment" THEN <<>> ELSE <<Annotate(Head(stmts), line, ind)>>)
       \o AnnotateBody(Tail(stmts), line + Len(Render(Head(stmts), ind)), ind)

\* a parser that recovers from an unmatched bracket instead of raising
ast_parse_tolerant(src) ==
  Return([kind |-> "Module", body |-> AnnotateBody(src.items, 1, <<>>)])

ast_parse(src) ==
  IF ~Balanced(SourceText(src)) THEN Raise("SyntaxError")
  ELSE Return([kind |-> "Module", body |-> AnnotateBody(src.items, 1, <<>>)])

\* ------------------------------------------------------------------------
\* ast.get_source_segment
\* ------------------------------------------------------------------------
\* the positions at which a line of source ends (\r\n is kept together)
LineEnds(source) ==
  {i \in 1..Len(source) :
     \/ source[i] = "\n"
     \/ source[i] = "\r" /\ ~(i < Len(source) /\ source[i + 1] = "\n")}

\* the k-th smallest element of a set of numbers
Nth(S, k) == CHOOSE e \in S : Cardinality({x \in S : x <= e}) = k

\* the lines of source, each keeping its line end
splitlines_no_ff(source) ==
  LET ends == LineEnds(source)
      n == Cardinality(ends)
      start(k) == IF k = 1 THEN 1 ELSE Nth(ends, k - 1) + 1
      last == IF n = 0 THEN 0 ELSE Nth(ends, n)
  IN [k \in 1..n |-> SubSeq(source, start(k), Nth(ends, k))]
     \o (IF last < Len(source) THEN <<Drop(source, last)>> ELSE <<>>)

\* the segment with its first line padded to the column of the node (padded=True)
get_source_segment_padded(source, node) ==
  LET lines == splitlines_no_ff(source)
      lineno == node.lineno
      end_lineno == node.end_lineno
  IN IF end_lineno = lineno
     THEN PyStr(SubSeq(lines[lineno], node.col_offset + 1, node.end_col_offset))
     ELSE PyStr([i \in 1..node.col_offset |-> " "]
                \o Drop(lines[lineno], node.col_offset)
                \o Flatten(SubSeq(lines, lineno + 1, end_lineno - 1))
                \o Take(lines[end_lineno], node.end_col_offset))

get_source_segment(source, node) ==
  LET lines == splitlines_no_ff(source)
      lineno == node.lineno
      end_lineno == node.end_lineno
  IN IF end_lineno = lineno
     THEN PyStr(SubSeq(lines[lineno], node.col_offset + 1, node.end_col_offset))
     ELSE PyStr(Drop(lines[lineno], node.col_offset)
                \o Flatten(SubSeq(lines, lineno + 1, end_lineno - 1))
                \o Take(lines[end_lineno], node.end_col_offset))

\* ------------------------------------------------------------------------
\* ast.get_docstring (clean=True) and inspect.cleandoc
\* ------------------------------------------------------------------------
Whitespace == {" ", "\t", "\n", "\r"}

RECURSIVE expandtabs(_, _)
expandtabs(s, col) ==
  IF s = <<>> THEN <<>>
  ELSE LET c == Head(s) IN
       IF c = "\t"
       THEN [i \in 1..(8 - (col % 8)) |-> " "] \o expandtabs(Tail(s), col + (8 - (col % 8)))
       ELSE IF c \in {"\n", "\r"} THEN <<c>> \o expandtabs(Tail(s), 0)
       ELSE <<c>> \o expandtabs(Tail(s), col + 1)

RECURSIVE split(_, _)
\* str.split('\n'): always at least one piece
split(s, cur) ==
  IF s = <<>> THEN <<cur>>
  ELSE IF Head(s) = "\n" THEN <<cur>> \o split(Tail(s), <<>>)
  ELSE split(Tail(s), cur \o <<Head(s)>>)

RECURSIVE lstrip(_)
lstrip(line) ==
  IF line # <<>> /\ Head(line) \in Whitespace THEN lstrip(Tail(line)) ELSE line

RECURSIVE PopTrailingBlank(_)
PopTrailingBlank(lines) ==
  IF lines # <<>> /\ lines[Len(lines)] = <<>>
  THEN PopTrailingBlank(Take(lines, Len(lines) - 1)) ELSE lines

RECURSIVE PopLeadingBlank(_)
PopLeadingBlank(lines) ==
  IF lines # <<>> /\ Head(lines) = <<>> THEN PopLeadingBlank(Tail(lines)) ELSE lines

cleandoc(doc) ==
  LET lines == split(expandtabs(doc, 0), <<>>)
      indents == {Len(lines[i]) - Len(lstrip(lines[i])) :
                    i \in {j \in 2..Len(lines) : lstrip(lines[j]) # <<>>}}
      dedented == [i \in 1..Len(lines) |->
                     IF i = 1 THEN lstrip(lines[1])
                     ELSE IF indents = {} THEN lines[i]
                     ELSE Drop(lines[i], IF Min(indents) > Len(lines[i])
                                         THEN Len(lines[i]) ELSE Min(indents))]
  IN Join(PopLeadingBlank(PopTrailingBlank(dedented)), <<"\n">>)

\* the docstring as written, not cleaned (clean=False)
get_docstring_noclean(node) ==
  IF ~(node.body # <<>> /\ node.body[1].kind = "Expr") THEN None
  ELSE LET v == node.body[1].value IN
       IF v.kind = "Constant" /\ v.ctype = "str" THEN PyStr(v.chars)
       ELSE None

get_docstring(node) ==
  IF ~(node.body # <<>> /\ node.body[1].kind = "Expr") THEN None
  ELSE LET v == node.body[1].value IN
       IF v.kind = "Constant" /\ v.ctype = "str" THEN PyStr(cleandoc(v.chars))
       ELSE None

\* ------------------------------------------------------------------------
\* extract_definitions.py
\* ------------------------------------------------------------------------
IsFunctionDef(node) == node.kind = "FunctionDef"
IsClassDef(node) == node.kind = "ClassDef"

extract_function_info(node, file_content) ==
  LET seg == get_source_segment(file_content, node) IN
  [name |-> node.name,
   docstring |-> get_docstring(node),
   content |-> IF seg = None \/ seg.s = <<>> THEN PyStr(<<>>) ELSE seg]

extract_class_info(node, file_content) ==
  LET fs == SelectSeq(node.body, IsFunctionDef)
      methods == [i \in 1..Len(fs) |-> extract_function_info(fs[i], file_content)]
  IN IF \E i \in 1..Len(node.bases) : node.bases[i].kind # "Name"
     THEN Raise("AttributeError")
     ELSE Return([name |-> node.name,
                  docstring |-> get_docstring(node),
                  bases |-> [i \in 1..Len(node.bases) |-> node.bases[i].chars[1]],
                  methods |-> methods])

definitions_get_module_info(src) ==
  LET parsed == ast_parse(src) IN
  IF parsed.tag = "raise" THEN parsed
  ELSE LET tree == parsed.value
           file_content == SourceText(src)
           module_docstring == get_docstring(tree)
           fs == SelectSeq(tree.body, IsFunctionDef)
           functions == [i \in 1..Len(fs) |-> extract_function_info(fs[i], file_content)]
           cs == SelectSeq(tree.body, IsClassDef)
           classes == [i \in 1..Len(cs) |-> extract_class_info(cs[i], file_content)]
       IN IF \E i \in 1..Len(cs) : classes[i].tag = "raise"
          THEN Raise("AttributeError")
          ELSE Return([docstring |-> module_docstring,
                       classes |-> [i \in 1..Len(cs) |-> classes[i].value],
                       functions |-> functions])

\* ------------------------------------------------------------------------
\* extract_code_entities.py
\* ------------------------------------------------------------------------
\* a function record whose docstring is taken as written
get_function_info_noclean(node, file_content) ==
  [name |-> node.name,
   docstring |-> get_docstring_noclean(node),
   content |-> get_source_segment(file_content, node)]

get_function_info(node, file_content) ==
  [name |-> node.name,
   docstring |-> get_docstring(node),
   content |-> get_source_segment(file_content, node)]

\* stmts[0].value.value: the attribute `value` of the expression of an Expr statement
ExprValueValue(e) ==
  CASE e.kind = "Constant" /\ e.ctype = "str" -> Return(PyStr(e.chars))
    [] e.kind = "Constant" /\ e.ctype = "int" -> Return(PyInt(e.chars))
    [] e.kind = "Attribute" -> Return(PyNode(e.chars))
    [] OTHER -> Raise("AttributeError")

\* lines 71-78: one class of the loop
entities_class_info(c, file_content) ==
  LET fs == SelectSeq(c.body, IsFunctionDef) IN
  IF \E i \in 1..Len(c.bases) : c.bases[i].kind # "Name"
  THEN Raise("AttributeError")
  ELSE Return([name |-> c.name,
               docstring |-> get_docstring(c),
               bases |-> [i \in 1..Len(c.bases) |-> c.bases[i].chars[1]],
               methods |-> [i \in 1..Len(fs) |-> get_function_info(fs[i], file_content)]])

entities_get_module_info(src) ==
  LET parsed == ast_parse(src) IN
  IF parsed.tag = "raise" THEN parsed
  ELSE LET stmts == parsed.value.body
           file_content == SourceText(src)
       IN IF stmts = <<>> THEN Raise("IndexError")
          ELSE LET file_docstring == IF stmts[1].kind = "Expr"
                                     THEN ExprValueValue(stmts[1].value)
                                     ELSE Return(None)
                   fs == SelectSeq(stmts, IsFunctionDef)
                   cs == SelectSeq(stmts, IsClassDef)
                   classes == [i \in 1..Len(cs) |-> entities_class_info(cs[i], file_content)]
               IN IF file_docstring.tag = "raise" THEN file_docstring
                  ELSE IF \E i \in 1..Len(cs) : classes[i].tag = "raise"
                  THEN Raise("AttributeError")
                  ELSE Return([docs |-> file_docstring.value,
                               classes |-> [i \in 1..Len(cs) |-> classes[i].value],
                               functions |-> [i \in 1..Len(fs) |->
                                                get_function_info(fs[i], file_content)]])

\* json.dumps of a module record: a docs value that is a syntax-tree node cannot be serialized
json_dumps(info) ==
  IF "docs" \in DOMAIN info /\ info.docs.tag = "node" THEN Raise("TypeError")
  ELSE Return(info)

\* ------------------------------------------------------------------------
\* Inputs
\* ------------------------------------------------------------------------
DocAlphabet == {" ", "\n", "a"}
DocValues == UNION {[1..n -> DocAlphabet] : n \in 0..MaxDocLen}

NestedDef == FunctionDef("n", 0, <<Pass>>)

ClassPlain == ClassDef("C", <<>>, <<Pass>>)
ClassFull ==
  ClassDef("D", <<NameExpr("B"), NameExpr("A")>>,
           <<ExprStmt(StrConst(<<" ", "d", "\n">>)),
             Assign,
             FunctionDef("m", 1, <<ExprStmt(StrConst(<<"\t", "a">>)), Pass>>),
             ClassDef("K", <<>>, <<FunctionDef("k", 0, <<Pass>>)>>),
             FunctionDef("p", 0, <<NestedDef>>),
             AsyncFunctionDef("q", <<Pass>>),
             FunctionDef("t", 0, <<ExprStmt(IntConst)>>)>>)
ClassAttrBase == ClassDef("E", <<AttrExpr("m")>>, <<FunctionDef("r", 0, <<Pass>>)>>)
ClassCallBase == ClassDef("F", <<NameExpr("B"), CallExpr("g")>>, <<Pass>>)

TopStmts ==
  {Comment, Assign,
   ExprStmt(StrConst(<<"a">>)), ExprStmt(StrConst(<<" ", "a">>)),
   ExprStmt(IntConst), ExprStmt(CallExpr("g")), ExprStmt(AttrExpr("m")),
   ExprStmt(NameExpr("x")),
   FunctionDef("f", 0, <<ExprStmt(StrConst(<<" ", "a", "\n">>))>>),
   FunctionDef("g", 0, <<Pass>>),
   FunctionDef("g", 1, <<Assign, Pass>>),
   FunctionDef("h", 1, <<ExprStmt(StrConst(<<"a", "\t", "b">>)), NestedDef>>),
   AsyncFunctionDef("f", <<Pass>>),
   ClassPlain, ClassFull, ClassAttrBase, ClassCallBase}

\* a function whose body is a string literal, for every value of the literal
DocStmts == {FunctionDef("f", 0, <<ExprStmt(StrConst(v))>>) : v \in DocValues}

ItemSeqs(n) == UNION {[1..k -> TopStmts] : k \in 0..n}

Sources ==
  {Source(items, FALSE) : items \in ItemSeqs(MaxStmts)}
  \cup {Source(<<d>>, FALSE) : d \in DocStmts}
  \cup {Source(<<Comment, d>>, FALSE) : d \in DocStmts}
  \cup {Source(items, TRUE) : items \in ItemSeqs(1)}

EmptySource == Source(<<>>, FALSE)

PyName == <<"a", ".", "p", "y">>
TxtName == <<"a", ".", "t", "x", "t">>

FileSources ==
  {EmptySource,
   Source(<<FunctionDef("g", 0, <<Pass>>)>>, FALSE),
   Source(<<ExprStmt(StrConst(<<" ", "a">>)), ClassFull>>, FALSE),
   Source(<<ExprStmt(AttrExpr("m"))>>, FALSE),
   Source(<<ClassAttrBase>>, FALSE),
   Source(<<Assign>>, TRUE)}

\* a file argument: its name, the exception reading it raises ("ok": none), its content
Files ==
  {[name |-> PyName, read |-> "ok", content |-> c] : c \in FileSources}
  \cup {[name |-> PyName, read |-> e, content |-> EmptySource] :
          e \in {"FileNotFoundError", "PermissionError", "UnicodeDecodeError"}}
  \cup {[name |-> TxtName, read |-> "ok", content |-> Source(<<ClassPlain>>, FALSE)]}

Argvs == UNION {[1..k -> Files] : k \in 0..MaxFiles}

\* ------------------------------------------------------------------------
\* State
\* ------------------------------------------------------------------------
VARIABLES
  src,      \* the source text get_module_info is given
  resD,     \* outcome of extract_definitions.get_module_info(src)
  resE,     \* outcome of extract_code_entities.get_module_info(src)
  script,   \* the script run as __main__ ("none": the functions are called directly)
  argv,     \* sys.argv[1:]
  idx,      \* position of the for loop in argv
  stdout,   \* records printed, each with the position of its argument
  stderr,   \* diagnostics printed, each with the position of its argument
  status,   \* "running", "done" or "crashed"
  exc       \* the uncaught exception when crashed

vars == <<src, resD, resE, script, argv, idx, stdout, stderr, status, exc>>
mainVars == <<script, argv, idx, stdout, stderr, status, exc>>

\* ------------------------------------------------------------------------
\* Calling get_module_info directly
\* ------------------------------------------------------------------------
Init ==
  /\ src \in Sources
  /\ resD = NotCalled
  /\ resE = NotCalled
  /\ script = "none"
  /\ argv = <<>>
  /\ idx = 1
  /\ stdout = <<>>
  /\ stderr = <<>>
  /\ status = "done"
  /\ exc = "none"

CallDefinitions ==
  /\ script = "none"
  /\ resD = NotCalled
  /\ resD' = definitions_get_module_info(src)
  /\ UNCHANGED <<src, resE, mainVars>>

CallEntities ==
  /\ script = "none"
  /\ resE = NotCalled
  /\ resE' = entities_get_module_info(src)
  /\ UNCHANGED <<src, resD, mainVars>>

Next == CallDefinitions \/ CallEntities

Spec == Init /\ [][Next]_vars

\* ------------------------------------------------------------------------
\* Running a script on file arguments
\* ------------------------------------------------------------------------
endswith(x, suffix) ==
  /\ Len(x) >= Len(suffix)
  /\ SubSeq(x, Len(x) - Len(suffix) + 1, Len(x)) = suffix

DotPy == <<".", "p", "y">>

\* IOError is OSError: the exceptions of open/read that `except IOError` catches
IsIOError(e) == e \in {"FileNotFoundError", "PermissionError"}

InitMain ==
  /\ script \in {"extract_definitions", "extract_code_entities"}
  /\ argv \in Argvs
  /\ idx = 1
  /\ stdout = <<>>
  /\ stderr = <<>>
  /\ status = "running"
  /\ exc = "none"
  /\ src = EmptySource
  /\ resD = NotCalled
  /\ resE = NotCalled

Crash(e) ==
  /\ status' = "crashed"
  /\ exc' = e

\* the filter skips an argument that does not end in .py
SkipArgument ==
  /\ status = "running"
  /\ idx <= Len(argv)
  /\ ~endswith(argv[idx].name, DotPy)
  /\ idx' = idx + 1
  /\ UNCHANGED <<src, resD, resE, script, argv, stdout, stderr, status, exc>>

\* extract_definitions.main: one iteration of the loop
DefinitionsIteration ==
  /\ status = "running"
  /\ script = "extract_definitions"
  /\ idx <= Len(argv)
  /\ endswith(argv[idx].name, DotPy)
  /\ LET f == argv[idx] IN
     IF f.read # "ok"
     THEN IF IsIOError(f.read)
          THEN /\ stderr' = Append(stderr, [arg |-> idx, error |-> f.read])
               /\ idx' = idx + 1
               /\ UNCHANGED <<src, resD, resE, stdout, status, exc>>
          ELSE /\ Crash(f.read)
               /\ UNCHANGED <<src, resD, resE, idx, stdout, stderr>>
     ELSE LET module_info == definitions_get_module_info(f.content) IN
          /\ src' = f.content
          /\ resD' = module_info
          /\ IF module_info.tag = "raise"
             THEN /\ Crash(module_info.exc)
                  /\ UNCHANGED <<idx, stdout>>
             ELSE LET text == json_dumps(module_info.value) IN
                  IF text.tag = "raise"
                  THEN /\ Crash(text.exc)
                       /\ UNCHANGED <<idx, stdout>>
                  ELSE /\ stdout' = Append(stdout, [arg |-> idx, record |-> text.value])
                       /\ idx' = idx + 1
                       /\ UNCHANGED <<status, exc>>
          /\ UNCHANGED <<resE, stderr>>
  /\ UNCHANGED <<script, argv>>

\* extract_code_entities __main__: one iteration of the loop
EntitiesIteration ==
  /\ status = "running"
  /\ script = "extract_code_entities"
  /\ idx <= Len(argv)
  /\ endswith(argv[idx].name, DotPy)
  /\ LET f == argv[idx] IN
     IF f.read # "ok"
     THEN /\ Crash(f.read)
          /\ UNCHANGED <<src, resD, resE, idx, stdout>>
     ELSE LET info == entities_get_module_info(f.content) IN
          /\ src' = f.content
          /\ resE' = info
          /\ IF info.tag = "raise"
             THEN /\ Crash(info.exc)
                  /\ UNCHANGED <<idx, stdout>>
             ELSE LET text == json_dumps(info.value) IN
                  IF text.tag = "raise"
                  THEN /\ Crash(text.exc)
                       /\ UNCHANGED <<idx, stdout>>
                  ELSE /\ stdout' = Append(stdout, [arg |-> idx, record |-> text.value])
                       /\ idx' = idx + 1
                       /\ UNCHANGED <<status, exc>>
          /\ UNCHANGED resD
  /\ UNCHANGED <<script, argv, stderr>>

\* the loop has run out of arguments
Exit ==
  /\ status = "running"
  /\ idx > Len(argv)
  /\ status' = "done"
  /\ UNCHANGED <<src, resD, resE, script, argv, idx, stdout, stderr, exc>>

NextMain == SkipArgument \/ DefinitionsIteration \/ EntitiesIteration \/ Exit

SpecMain == InitMain /\ [][NextMain]_vars

\* ------------------------------------------------------------------------
\* Vocabulary of the properties
\* ------------------------------------------------------------------------
Called(res) == res.tag # "notcalled"
Returned(res) == res.tag = "return"
ValidSource(s) == ~s.junk

KindPositions(stmts, kinds) == {p \in 1..Len(stmts) : stmts[p].kind \in kinds}

\* the statements of the given kinds, in source order
OfKind(stmts, kinds) ==
  LET ps == KindPositions(stmts, kinds) IN
  [k \in 1..Cardinality(ps) |-> stmts[Nth(ps, k)]]

\* the top-level statements of a source (comments are not statements)
Statements(s) == OfKind(s.items, {"Pass", "Assign", "Expr", "FunctionDef",
                                  "AsyncFunctionDef", "ClassDef"})

ModuleDoc(res) ==
  IF "docs" \in DOMAIN res.value THEN res.value.docs ELSE res.value.docstring

IsStringStatement(st) ==
  st.kind = "Expr" /\ st.value.kind = "Constant" /\ st.value.ctype = "str"

\* the string value of the literal that opens a body, None without one
LiteralDoc(body) ==
  IF body # <<>> /\ IsStringStatement(body[1]) THEN PyStr(body[1].value.chars) ELSE None

\* the literal's value as ast.get_docstring cleans it: tabs expanded, the first
\* line stripped of leading whitespace, the common indentation of the later
\* lines removed, leading and trailing blank lines dropped
CleanedDoc(body) ==
  IF LiteralDoc(body) = None THEN None ELSE PyStr(cleandoc(LiteralDoc(body).s))

SameNames(records, stmts) ==
  /\ Len(records) = Len(stmts)
  /\ \A i \in 1..Len(records) : records[i].name = stmts[i].name

\* ------------------------------------------------------------------------
\* C1
\* ------------------------------------------------------------------------
C1Holds(res) ==
  Returned(res) =>
    /\ SameNames(res.value.functions,
                 OfKind(Statements(src), {"FunctionDef", "AsyncFunctionDef"}))
    /\ SameNames(res.value.classes, OfKind(Statements(src), {"ClassDef"}))

\* C1: the record get_module_info returns for a source text has as functions
\* the top-level function definitions, async ones included, and as classes the
\* top-level class definitions, each in source order and nothing else.
C1_EveryDefinitionCounted == C1Holds(resD) /\ C1Holds(resE)

\* ------------------------------------------------------------------------
\* C2
\* ------------------------------------------------------------------------
SimpleBases(stmts) ==
  \A i \in 1..Len(stmts) : \A j \in 1..Len(stmts[i].bases) : stmts[i].bases[j].kind = "Name"

C2Holds(res) ==
  (Called(res) /\ ValidSource(src) /\ Statements(src) # <<>> /\ SimpleBases(Statements(src))) =>
    /\ Returned(res)
    /\ ModuleDoc(res) \in {LiteralDoc(Statements(src)), CleanedDoc(Statements(src))}

\* C2: for every valid source text with a first statement (and no class whose
\* base is not a simple name, the case of C5) the module docstring is the
\* string value of the first statement (as written, or as ast.get_docstring
\* cleans it) when it is a bare string literal and None otherwise, and nothing
\* is raised.
C2_ModuleDocstring == C2Holds(resD) /\ C2Holds(resE)

\* ------------------------------------------------------------------------
\* C3
\* ------------------------------------------------------------------------
\* every function, method and class record carries docstring Doc(body of its definition)
DocstringsAre(res, Doc(_)) ==
  Returned(res) =>
    LET fs == OfKind(Statements(src), {"FunctionDef"})
        cs == OfKind(Statements(src), {"ClassDef"})
        functions == res.value.functions
        classes == res.value.classes
    IN /\ Len(functions) = Len(fs)
       /\ Len(classes) = Len(cs)
       /\ \A i \in 1..Len(fs) : functions[i].docstring = Doc(fs[i].body)
       /\ \A i \in 1..Len(cs) :
            LET ms == OfKind(cs[i].body, {"FunctionDef"}) IN
            /\ classes[i].docstring = Doc(cs[i].body)
            /\ Len(classes[i].methods) = Len(ms)
            /\ \A j \in 1..Len(ms) : classes[i].methods[j].docstring = Doc(ms[j].body)

\* C3 (as claimed): the docstring of every function, method and class record
\* is present iff the body opens with a string literal and then equals the
\* literal's string value.
C3_DocstringIsLiteralValue ==
  DocstringsAre(resD, LiteralDoc) /\ DocstringsAre(resE, LiteralDoc)

\* C3 (amended): the docstring of every function, method and class record is
\* present iff the body opens with a string literal, and then equals the
\* literal's value cleaned as ast.get_docstring cleans it; absence is None,
\* never the empty string.
C3_DocstringIsCleanedLiteral ==
  DocstringsAre(resD, CleanedDoc) /\ DocstringsAre(resE, CleanedDoc)

\* a function whose body opens with a literal that cleaning changes, next to
\* one without a docstring and one with the empty docstring
C3_Witness ==
  /\ Returned(resD)
  /\ Returned(resE)
  /\ \E i \in 1..Len(resD.value.functions) :
       LET f == OfKind(Statements(src), {"FunctionDef"})[i] IN
       /\ IsStringStatement(f.body[1])
       /\ resD.value.functions[i].docstring # PyStr(f.body[1].value.chars)
  /\ \E i \in 1..Len(resE.value.functions) :
       \/ resE.value.functions[i].docstring = None
       \/ resE.value.functions[i].docstring = PyStr(<<>>)

\* ------------------------------------------------------------------------
\* C4
\* ------------------------------------------------------------------------
TextOfLines(ls) == Flatten([i \in 1..Len(ls) |-> ls[i] \o <<"\n">>])

\* the number of characters of the text before the p-th statement of a block
OffsetOf(stmts, p, ind) == Len(TextOfLines(RenderBody(Take(stmts, p - 1), ind)))

\* the characters of the text from the start of definition st, written at
\* indentation ind after `before` characters, through its last body statement;
\* the start is the first decorator or, without them, the def keyword
DefinitionSpan(text, before, st, ind, withDecorators) ==
  LET r == Render(st, ind)
      first == IF withDecorators THEN Len(ind)
               ELSE Len(TextOfLines(Take(r, st.decorators))) + Len(ind)
  IN SubSeq(text, before + first + 1, before + Len(TextOfLines(r)) - 1)

ContentsAre(res, withDecorators) ==
  Returned(res) =>
    LET text == SourceText(src)
        fps == KindPositions(src.items, {"FunctionDef"})
        cps == KindPositions(src.items, {"ClassDef"})
        functions == res.value.functions
        classes == res.value.classes
    IN /\ Len(functions) = Cardinality(fps)
       /\ Len(classes) = Cardinality(cps)
       /\ \A k \in 1..Len(functions) :
            LET p == Nth(fps, k) IN
            /\ functions[k].content =
                 PyStr(DefinitionSpan(text, OffsetOf(src.items, p, <<>>),
                                      src.items[p], <<>>, withDecorators))
            /\ functions[k].content.s # <<>>
       /\ \A c \in 1..Len(classes) :
            LET pc == Nth(cps, c)
                cls == src.items[pc]
                mps == KindPositions(cls.body, {"FunctionDef"})
                header == OffsetOf(src.items, pc, <<>>) + Len(Render(cls, <<>>)[1]) + 1
            IN /\ Len(classes[c].methods) = Cardinality(mps)
               /\ \A j \in 1..Len(classes[c].methods) :
                    LET q == Nth(mps, j) IN
                    /\ classes[c].methods[j].content =
                         PyStr(DefinitionSpan(text, header + OffsetOf(cls.body, q, Indent),
                                              cls.body[q], Indent, withDecorators))
                    /\ classes[c].methods[j].content.s # <<>>

\* C4 (as claimed): the content of every function and method record is the
\* non-empty substring of the source text from the start of the definition,
\* decorators included, through the end of its last body statement.
C4_ContentFromDecorators == ContentsAre(resD, TRUE) /\ ContentsAre(resE, TRUE)

\* C4 (amended): the content of every function and method record is the
\* non-empty substring of the source text from the def keyword of the
\* definition, decorators excluded, through the end of its last body statement.
C4_ContentFromDef == ContentsAre(resD, FALSE) /\ ContentsAre(resE, FALSE)

\* records of a decorated top-level function and of a decorated method
C4_Witness ==
  /\ Returned(resD)
  /\ Returned(resE)
  /\ \E k \in 1..Len(resD.value.functions) :
       OfKind(src.items, {"FunctionDef"})[k].decorators > 0
  /\ \E c \in 1..Len(resE.value.classes) :
       \E j \in 1..Len(resE.value.classes[c].methods) :
         OfKind(OfKind(src.items, {"ClassDef"})[c].body, {"FunctionDef"})[j].decorators > 0

\* ------------------------------------------------------------------------
\* C5
\* ------------------------------------------------------------------------
C5Holds(res) ==
  (Called(res) /\ ValidSource(src) /\ ~SimpleBases(Statements(src))
     /\ (Statements(src)[1].kind = "Expr" => IsStringStatement(Statements(src)[1]))) =>
    /\ Returned(res)
    /\ SameNames(res.value.classes, OfKind(Statements(src), {"ClassDef"}))
    /\ SameNames(res.value.functions, OfKind(Statements(src), {"FunctionDef"}))

\* C5: for a valid source text with a class whose header has a base that is
\* not a simple name, get_module_info returns a record holding a class record
\* for every class and a function record for every top-level function.
C5_NonSimpleBaseDoesNotCrash == C5Holds(resD) /\ C5Holds(resE)

\* ------------------------------------------------------------------------
\* C6
\* ------------------------------------------------------------------------
C6Holds(res) ==
  (Called(res) /\ ValidSource(src) /\ Statements(src) = <<>>) =>
    /\ Returned(res)
    /\ ModuleDoc(res) = None
    /\ res.value.functions = <<>>
    /\ res.value.classes = <<>>

\* C6: for a source text without any statement (empty, or comments only)
\* get_module_info raises nothing and returns docstring None, no functions
\* and no classes.
C6_EmptySource == C6Holds(resD) /\ C6Holds(resE)

\* ------------------------------------------------------------------------
\* C7
\* ------------------------------------------------------------------------
RECURSIVE AllDefNames(_)
\* the names of the definitions found anywhere in a block
AllDefNames(stmts) ==
  UNION {(IF IsDef(stmts[i]) THEN {stmts[i].name} ELSE {}) \cup AllDefNames(stmts[i].body) :
           i \in 1..Len(stmts)}

\* the names defined inside a function or method, or in or below a nested class
DeepNames(stmts) ==
  UNION {IF stmts[i].kind = "ClassDef"
         THEN UNION {IF stmts[i].body[j].kind = "ClassDef"
                     THEN AllDefNames(<<stmts[i].body[j]>>)
                     ELSE AllDefNames(stmts[i].body[j].body) :
                       j \in 1..Len(stmts[i].body)}
         ELSE AllDefNames(stmts[i].body) : i \in 1..Len(stmts)}

RecordNames(res) ==
  {res.value.functions[i].name : i \in 1..Len(res.value.functions)}
  \cup {res.value.classes[i].name : i \in 1..Len(res.value.classes)}
  \cup UNION {{res.value.classes[i].methods[j].name : j \in 1..Len(res.value.classes[i].methods)} :
                i \in 1..Len(res.value.classes)}

C7Holds(res) ==
  Returned(res) =>
    LET cs == OfKind(Statements(src), {"ClassDef"})
        classes == res.value.classes
    IN /\ Len(classes) = Len(cs)
       /\ \A i \in 1..Len(cs) :
            LET direct == OfKind(cs[i].body, {"FunctionDef", "AsyncFunctionDef"}) IN
            /\ SameNames(classes[i].methods, direct)
            /\ \A j \in 1..Len(direct) :
                 /\ DOMAIN classes[i].methods[j] = {"name", "docstring", "content"}
                 /\ classes[i].methods[j].docstring = CleanedDoc(direct[j].body)
       /\ RecordNames(res) \cap DeepNames(Statements(src)) = {}

\* C7: the methods of every class record are exactly the function definitions
\* (def and async def statements alike, as in C1) that are direct children of
\* the class body, in source order, each a function record with the name and
\* the docstring of its definition; assignments and nested classes of the
\* class body contribute nothing, and the names defined inside a method or a
\* nested class appear nowhere in the record.
C7_MethodsAreDirectChildren == C7Holds(resD) /\ C7Holds(resE)

\* ------------------------------------------------------------------------
\* C8
\* ------------------------------------------------------------------------
\* C8: when the loop of the batch driver is at a .py argument whose reading
\* fails, the failure is caught: a diagnostic goes to the error stream,
\* nothing to the record stream, and the loop moves on to the next argument.
C8_ReadFailureIsCaught ==
  [][(/\ status = "running"
      /\ idx <= Len(argv)
      /\ endswith(argv[idx].name, DotPy)
      /\ argv[idx].read # "ok")
     => (/\ status' = "running"
         /\ idx' = idx + 1
         /\ Len(stderr') = Len(stderr) + 1
         /\ stdout' = stdout)]_vars

\* ------------------------------------------------------------------------
\* C9
\* ------------------------------------------------------------------------
InvalidFile(f) == endswith(f.name, DotPy) /\ f.read = "ok" /\ ~ValidSource(f.content)

\* C9: on a source text that is not valid source code get_module_info raises
\* SyntaxError and returns no record; the batch driver does not catch it and
\* prints no record for that file.
C9_SyntaxErrorPropagates ==
  /\ (Called(resD) /\ ~ValidSource(src)) => (resD.tag = "raise" /\ resD.exc = "SyntaxError")
  /\ (Called(resE) /\ ~ValidSource(src)) => (resE.tag = "raise" /\ resE.exc = "SyntaxError")
  /\ \A k \in 1..Len(argv) :
       InvalidFile(argv[k]) =>
         /\ \A i \in 1..Len(stdout) : stdout[i].arg # k
         /\ idx <= k
         /\ (idx = k /\ status # "running") => (status = "crashed" /\ exc = "SyntaxError")

\* the driver has printed a record and then stopped on a file with a syntax error
C9_Witness ==
  /\ status = "crashed"
  /\ exc = "SyntaxError"
  /\ idx <= Len(argv)
  /\ InvalidFile(argv[idx])
  /\ stdout # <<>>

\* ------------------------------------------------------------------------
\* C10
\* ------------------------------------------------------------------------
\* C10: when both scripts return a record for a source text, the two records
\* have the same functions and the same classes.
C10_ScriptsAgree ==
  (Returned(resD) /\ Returned(resE)) =>
    /\ resD.value.functions = resE.value.functions
    /\ resD.value.classes = resE.value.classes

\* both return a class with a documented method, and differ in the module docstring
C10_Witness ==
  /\ Returned(resD)
  /\ Returned(resE)
  /\ \E i \in 1..Len(resE.value.classes) :
       \E j \in 1..Len(resE.value.classes[i].methods) :
         resE.value.classes[i].methods[j].docstring # None
  /\ resD.value.docstring # resE.value.docs

====
